---- MODULE Spec2Model ----
(***************************************************************************)
(* Uncompressed string segment storage (string_uncompressed.cpp).          *)
(*                                                                         *)
(* A segment owns one primary block: an 8 byte dictionary header           *)
(* {size, end}, an array of int32 offsets growing forward and a dictionary *)
(* growing backward from dictionary.end.  Strings at or above the block    *)
(* limit are written to the overflow store (an in-memory chain of buffers, *)
(* or the checkpoint's overflow writer) and leave a 12 byte marker in the  *)
(* dictionary.  Memory is modelled byte by byte: a buffer is a sequence of *)
(* bytes, address a is index a + 1.                                        *)
(*                                                                         *)
(* Specifications: Spec (append, finalize, serialize and reload of one     *)
(* segment), SpecAdvisory (Spec with callers that check RemainingSpace     *)
(* against the value alone), SpecAnalyze (the analyze pass), SpecOverflow  *)
(* (writes to and reads from the overflow store), SpecScan (a segment      *)
(* scanned piece by piece), SpecFetch (row fetches through one fetch       *)
(* state).                                                                 *)
(***************************************************************************)
EXTENDS Integers, Sequences, FiniteSets, TLC

\* ------------------------------------------------------------------------
\* Sizes.  The block size and the first temporary block id are scaled down.
\* ------------------------------------------------------------------------
BlockSize == 48
MAXIMUM_BLOCK == 1000
MaxRows == 4
JunkByte == 170
MaxVector == 2
MaxWrites == 4
MaxBase == 1
MaxSegments == 3
MaxPins == 3
MaxAnalyzed == 4

Uint32Size == 4
Int32Size == 4
BlockIdSize == 8
INVALID_BLOCK == -1
DEFAULT_STRING_BLOCK_LIMIT == 4096

DICTIONARY_HEADER_SIZE == 2 * Uint32Size
BIG_STRING_MARKER_SIZE == BlockIdSize + Int32Size
SegmentSize == BlockSize

Min(a, b) == IF a < b THEN a ELSE b
MaxValue(a, b) == IF a > b THEN a ELSE b
AbsValue(x) == IF x < 0 THEN -x ELSE x

\* AlignValueFloor(block_size / 4) capped by the default limit
GetStringBlockLimit(block_size) ==
    Min(((block_size \div 4) \div 8) * 8, DEFAULT_STRING_BLOCK_LIMIT)

GetCompactionFlushLimit(block_size) == (block_size \div 5) * 4

\* ------------------------------------------------------------------------
\* Bytes: Store<T> / Load<T> are little endian, two's complement.
\* ------------------------------------------------------------------------
RECURSIVE LEBytes(_, _)
LEBytes(u, n) == IF n = 0 THEN <<>> ELSE <<u % 256>> \o LEBytes(u \div 256, n - 1)

Complement(bs) == [i \in 1..Len(bs) |-> 255 - bs[i]]

\* A value whose bytes do not fit the model's integers: an identifier of no block.
OutOfModel == 1000 * 1000 * 1000

Store(v, n) == IF v >= 0 THEN LEBytes(v, n) ELSE Complement(LEBytes(-v - 1, n))

\* four bytes, least significant first
LEValue4(bs) == bs[1] + 256 * (bs[2] + 256 * (bs[3] + 256 * bs[4]))

LoadInt32(bs) ==
    IF bs[4] >= 128
    THEN -((255 - bs[1]) + 256 * ((255 - bs[2]) + 256 * ((255 - bs[3]) + 256 * (255 - bs[4])))) - 1
    ELSE LEValue4(bs)

LoadUint32(bs) == IF bs[4] >= 128 THEN OutOfModel ELSE LEValue4(bs)

LoadBlockId(bs) ==
    LET lo == SubSeq(bs, 1, 4)
        hi == SubSeq(bs, 5, 8)
    IN  IF hi = <<0, 0, 0, 0>> /\ lo[4] < 128 THEN LEValue4(lo)
        ELSE IF hi = <<255, 255, 255, 255>> /\ lo[4] >= 128 THEN LoadInt32(lo)
        ELSE OutOfModel

InBounds(m, addr, n) == addr >= 0 /\ n >= 0 /\ addr + n <= Len(m)

ReadBytes(m, addr, n) == [i \in 1..n |-> m[addr + i]]

WriteBytes(m, addr, bs) ==
    [i \in 1..Len(m) |-> IF i > addr /\ i <= addr + Len(bs) THEN bs[i - addr] ELSE m[i]]

FreshBuffer(size) == [i \in 1..size |-> JunkByte]

\* What a read outside its buffer yields: no string of the model.
Garbage == <<-1>>

\* ------------------------------------------------------------------------
\* The strings the model appends.
\* ------------------------------------------------------------------------
MkString(len, seed) == [i \in 1..len |-> (seed + 7 * i) % 251]

StringBlockLimit == GetStringBlockLimit(BlockSize)

Values ==
    { MkString(0, 0), MkString(3, 96), MkString(StringBlockLimit - 1, 16),
      MkString(StringBlockLimit, 32), MkString(BlockSize + 1, 1) }

\* ------------------------------------------------------------------------
\* Dictionary header codec
\* ------------------------------------------------------------------------
SetDictionary(blk, container) ==
    WriteBytes(WriteBytes(blk, 0, Store(container.size, Uint32Size)),
               Uint32Size, Store(container.end, Uint32Size))

GetDictionary(blk) ==
    [size |-> LoadUint32(ReadBytes(blk, 0, Uint32Size)),
     end  |-> LoadUint32(ReadBytes(blk, Uint32Size, Uint32Size))]

GetDictionaryEnd(blk) == LoadUint32(ReadBytes(blk, Uint32Size, Uint32Size))

\* base_data[i]: the int32 at DICTIONARY_HEADER_SIZE + 4 * i (i = -1 is the
\* header's end field, i past the block is outside the buffer)
base_data(blk, i) ==
    LET addr == DICTIONARY_HEADER_SIZE + Int32Size * i
    IN  IF InBounds(blk, addr, Int32Size) THEN LoadInt32(ReadBytes(blk, addr, Int32Size))
        ELSE OutOfModel

UsedSpace(blk, cnt) == GetDictionary(blk).size + cnt * Int32Size + DICTIONARY_HEADER_SIZE

\* RemainingSpace without the offset array
RemainingSpaceWrong(blk, cnt) ==
    SegmentSize - (GetDictionary(blk).size + DICTIONARY_HEADER_SIZE)

\* RemainingSpace without the header
RemainingSpaceNoHeader(blk, cnt) ==
    SegmentSize - (GetDictionary(blk).size + cnt * Int32Size)

RemainingSpace(blk, cnt) == SegmentSize - UsedSpace(blk, cnt)

\* RemainingSpace without its assertion on dictionary.end
RemainingSpaceAssertsNoEnd(blk, cnt) == SegmentSize >= UsedSpace(blk, cnt)

\* The two D_ASSERTs of RemainingSpace
RemainingSpaceAsserts(blk, cnt) ==
    /\ GetDictionary(blk).end = SegmentSize
    /\ SegmentSize >= UsedSpace(blk, cnt)

\* ------------------------------------------------------------------------
\* Strings and markers in memory
\* ------------------------------------------------------------------------
ReadString(target, offset, string_length) ==
    IF InBounds(target, offset, string_length)
    THEN ReadBytes(target, offset, string_length)
    ELSE Garbage

ReadStringWithLength(target, offset) ==
    IF ~InBounds(target, offset, Uint32Size) THEN Garbage
    ELSE LET str_length == LoadUint32(ReadBytes(target, offset, Uint32Size))
         IN  ReadString(target, offset + Uint32Size, str_length)

\* a marker written offset first
WriteStringMarkerSwapped(target, addr, block_id, offset) ==
    WriteBytes(WriteBytes(target, addr, Store(offset, Int32Size)),
               addr + Int32Size, Store(block_id, BlockIdSize))

WriteStringMarker(target, addr, block_id, offset) ==
    WriteBytes(WriteBytes(target, addr, Store(block_id, BlockIdSize)),
               addr + BlockIdSize, Store(offset, Int32Size))

ReadStringMarker(target, addr) ==
    IF ~InBounds(target, addr, BIG_STRING_MARKER_SIZE)
    THEN [block_id |-> OutOfModel, offset |-> 0]
    ELSE [block_id |-> LoadBlockId(ReadBytes(target, addr, BlockIdSize)),
          offset   |-> LoadInt32(ReadBytes(target, addr + BlockIdSize, Int32Size))]

\* ------------------------------------------------------------------------
\* State
\* ------------------------------------------------------------------------
VARIABLES
    block,            \* the segment's primary block: BlockSize bytes
    count,            \* segment.count
    head,             \* in-memory overflow chain, head first: StringBlock records
    overflow_blocks,  \* side index: the block ids it has an entry for
    on_disk_blocks,   \* durable overflow block list, in registration order
    overflow_writer,  \* the checkpoint writer: [configured, block_id, offset]
    buffers,          \* buffer manager: in-memory buffer of each temporary block id
    temp_id,          \* buffer manager: next temporary block id
    disk,             \* block manager: bytes of each durable overflow block
    free_ids,         \* block manager: [free_list, max_block]
    appended,         \* history: the values appended, in order
    last_call,        \* history: the last operation and what it returned
    fault,            \* "none", or the assertion that aborted the program
    reload,           \* the serialize / deserialize / reload pipeline
    advisory          \* history: an append was made on the advisory check alone

VARIABLES
    analyze_state,    \* StringAnalyzeState: [count, total_string_size, overflow_strings]
    analyzed,         \* history: the rows passed to Analyze, in order
    written,          \* history: what each direct Write returned, with its value
    result_data,      \* the destination vector of the scan in progress
    scan_state,       \* the scan in progress: [active, row_index, base]
    handles,          \* ColumnFetchState::handles: primary block id -> pinned handle
    pin_calls,        \* history: the block ids passed to BufferManager::Pin by fetches
    fetched_ids       \* history: the primary block ids fetched through the fetch state

\* the variables of the analyze pass, the direct overflow writes and the readers
other_vars == <<analyze_state, analyzed, written, result_data, scan_state, handles,
                pin_calls, fetched_ids>>

vars == <<block, count, head, overflow_blocks, on_disk_blocks, overflow_writer,
          buffers, temp_id, disk, free_ids, appended, last_call, fault, reload,
          advisory, analyze_state, analyzed, written, result_data, scan_state, handles,
          pin_calls, fetched_ids>>

\* The overflow store as the operators below pass it around
OverflowStore ==
    [head |-> head, overflow_blocks |-> overflow_blocks,
     on_disk_blocks |-> on_disk_blocks, overflow_writer |-> overflow_writer,
     buffers |-> buffers, temp_id |-> temp_id, disk |-> disk, free_ids |-> free_ids]

WithKey(f, k, v) == [x \in DOMAIN f \cup {k} |-> IF x = k THEN v ELSE f[x]]

NoMap == [x \in {} |-> 0]

\* ------------------------------------------------------------------------
\* Overflow store: in-memory write.  alloc_ok is whether the buffer manager's
\* Allocate / Pin succeeds; when it throws, nothing has been changed yet.
\* ------------------------------------------------------------------------
\* a fit test that takes an exact fit for a fit
StringFitsInclusive(s, total_length) ==
    s.head # <<>> /\ s.head[1].offset + total_length <= s.head[1].size

StringFits(s, total_length) ==
    s.head # <<>> /\ ~(s.head[1].offset + total_length >= s.head[1].size)

\* WriteStringMemory that links the new StringBlock before it allocates the buffer
WriteStringMemoryLinkFirst(s, string, alloc_ok) ==
    LET total_length == Len(string) + Uint32Size
        alloc_size   == MaxValue(total_length, BlockSize)
        new_block    == [block |-> s.temp_id, offset |-> 0, size |-> alloc_size]
        linked       == [s EXCEPT !.head = <<new_block>> \o s.head,
                                  !.overflow_blocks = s.overflow_blocks \cup {s.temp_id}]
    IN  IF ~alloc_ok
        THEN [s |-> IF StringFits(s, total_length) THEN s ELSE linked,
              result_block |-> INVALID_BLOCK, result_offset |-> 0, threw |-> TRUE]
        ELSE LET s1 == IF StringFits(s, total_length) THEN s
                       ELSE [linked EXCEPT
                               !.buffers = WithKey(s.buffers, s.temp_id, FreshBuffer(alloc_size)),
                               !.temp_id = s.temp_id + 1]
                 id  == s1.head[1].block
                 off == s1.head[1].offset
                 buf == WriteBytes(WriteBytes(s1.buffers[id], off, Store(Len(string), Uint32Size)),
                                   off + Uint32Size, string)
             IN  [s |-> [s1 EXCEPT !.buffers[id] = buf,
                                   !.head[1].offset = off + total_length],
                  result_block |-> id, result_offset |-> off, threw |-> FALSE]

\* WriteStringMemory whose new buffer is always one block long
WriteStringMemoryBlockSized(s, string, alloc_ok) ==
    LET total_length == Len(string) + Uint32Size
    IN  IF ~alloc_ok
        THEN [s |-> s, result_block |-> INVALID_BLOCK, result_offset |-> 0, threw |-> TRUE]
        ELSE LET new_block  == [block |-> s.temp_id, offset |-> 0, size |-> BlockSize]
                 s1 == IF StringFits(s, total_length) THEN s
                       ELSE [s EXCEPT
                               !.buffers = WithKey(s.buffers, s.temp_id, FreshBuffer(BlockSize)),
                               !.temp_id = s.temp_id + 1,
                               !.overflow_blocks = s.overflow_blocks \cup {s.temp_id},
                               !.head = <<new_block>> \o s.head]
                 id  == s1.head[1].block
                 off == s1.head[1].offset
                 buf == WriteBytes(WriteBytes(s1.buffers[id], off, Store(Len(string), Uint32Size)),
                                   off + Uint32Size, string)
             IN  [s |-> [s1 EXCEPT !.buffers[id] = buf,
                                   !.head[1].offset = off + total_length],
                  result_block |-> id, result_offset |-> off, threw |-> FALSE]

WriteStringMemory(s, string, alloc_ok) ==
    LET total_length == Len(string) + Uint32Size
    IN  IF ~alloc_ok
        THEN \* Allocate (or Pin) threw: the new StringBlock was never linked
             [s |-> s, result_block |-> INVALID_BLOCK, result_offset |-> 0, threw |-> TRUE]
        ELSE LET alloc_size == MaxValue(total_length, BlockSize)
                 new_block  == [block |-> s.temp_id, offset |-> 0, size |-> alloc_size]
                 s1 == IF StringFits(s, total_length) THEN s
                       ELSE [s EXCEPT
                               !.buffers = WithKey(s.buffers, s.temp_id, FreshBuffer(alloc_size)),
                               !.temp_id = s.temp_id + 1,
                               !.overflow_blocks = s.overflow_blocks \cup {s.temp_id},
                               !.head = <<new_block>> \o s.head]
                 id  == s1.head[1].block
                 off == s1.head[1].offset
                 buf == WriteBytes(WriteBytes(s1.buffers[id], off, Store(Len(string), Uint32Size)),
                                   off + Uint32Size, string)
             IN  [s |-> [s1 EXCEPT !.buffers[id] = buf,
                                   !.head[1].offset = off + total_length],
                  result_block |-> id, result_offset |-> off, threw |-> FALSE]

\* ------------------------------------------------------------------------
\* Overflow store: the checkpoint's overflow writer (durable path).  Every
\* durable overflow block keeps its last BlockIdSize bytes for the id of the
\* next block of the chain.
\* ------------------------------------------------------------------------
GetStringSpace == BlockSize - BlockIdSize

GetFreeBlockId(s) ==
    IF s.free_ids.free_list # <<>> THEN s.free_ids.free_list[1] ELSE s.free_ids.max_block

TakeFreeBlockId(s) ==
    IF s.free_ids.free_list # <<>>
    THEN [s EXCEPT !.free_ids.free_list = Tail(s.free_ids.free_list)]
    ELSE [s EXCEPT !.free_ids.max_block = s.free_ids.max_block + 1]

\* link the old block to the new one, start the new one, register it in the
\* segment state's durable block list
AllocateNewBlock(s) ==
    LET new_block_id == GetFreeBlockId(s)
        old == s.overflow_writer.block_id
        d1  == IF old # INVALID_BLOCK
               THEN [s.disk EXCEPT ![old] =
                        WriteBytes(s.disk[old], GetStringSpace, Store(new_block_id, BlockIdSize))]
               ELSE s.disk
    IN  [TakeFreeBlockId(s) EXCEPT
            !.disk = WithKey(d1, new_block_id, FreshBuffer(BlockSize)),
            !.overflow_writer = [configured |-> TRUE, block_id |-> new_block_id, offset |-> 0],
            !.on_disk_blocks = Append(s.on_disk_blocks, new_block_id)]

RECURSIVE WriterCopy(_, _)
WriterCopy(s, strptr) ==
    IF strptr = <<>> THEN s
    ELSE LET w        == s.overflow_writer
             to_write == Min(Len(strptr), GetStringSpace - w.offset)
             s1 == [s EXCEPT !.disk[w.block_id] =
                                 WriteBytes(s.disk[w.block_id], w.offset, SubSeq(strptr, 1, to_write)),
                             !.overflow_writer.offset = w.offset + to_write]
             rest == SubSeq(strptr, to_write + 1, Len(strptr))
         IN  IF rest # <<>> THEN WriterCopy(AllocateNewBlock(s1), rest) ELSE s1

OverflowWriterWriteString(s, string) ==
    LET w  == s.overflow_writer
        s1 == IF w.block_id = INVALID_BLOCK \/ w.offset + 2 * Uint32Size >= GetStringSpace
              THEN AllocateNewBlock(s) ELSE s
        w1 == s1.overflow_writer
        s2 == [s1 EXCEPT !.disk[w1.block_id] =
                             WriteBytes(s1.disk[w1.block_id], w1.offset, Store(Len(string), Uint32Size)),
                         !.overflow_writer.offset = w1.offset + Uint32Size]
    IN  [s |-> WriterCopy(s2, string),
         result_block |-> w1.block_id, result_offset |-> w1.offset, threw |-> FALSE]

\* WriteString that also keeps a copy in memory when the writer is set
WriteStringBoth(s, string, alloc_ok) ==
    IF s.overflow_writer.configured
    THEN OverflowWriterWriteString(WriteStringMemory(s, string, alloc_ok).s, string)
    ELSE WriteStringMemory(s, string, alloc_ok)

WriteString(s, string, alloc_ok) ==
    IF s.overflow_writer.configured
    THEN OverflowWriterWriteString(s, string)
    ELSE WriteStringMemory(s, string, alloc_ok)

\* ------------------------------------------------------------------------
\* Overflow store: read
\* ------------------------------------------------------------------------
\* a copy loop that resumes past the first bytes of the next block
RECURSIVE DurableCopySkip(_, _, _, _)
DurableCopySkip(s, handle, offset, remaining) ==
    IF remaining = 0 THEN <<>>
    ELSE IF handle \notin DOMAIN s.disk \/ offset > GetStringSpace THEN Garbage
    ELSE LET to_write == Min(remaining, BlockSize - BlockIdSize - offset)
             part     == ReadBytes(s.disk[handle], offset, to_write)
         IN  IF remaining - to_write > 0
             THEN LET next_block ==
                          LoadBlockId(ReadBytes(s.disk[handle], offset + to_write, BlockIdSize))
                      tail == DurableCopySkip(s, next_block, BlockIdSize, remaining - to_write)
                  IN  IF tail = Garbage THEN Garbage ELSE part \o tail
             ELSE part

\* the copy loop of the durable read: handle is the pinned block's id
RECURSIVE DurableCopy(_, _, _, _)
DurableCopy(s, handle, offset, remaining) ==
    IF remaining = 0 THEN <<>>
    ELSE IF handle \notin DOMAIN s.disk \/ offset > GetStringSpace THEN Garbage
    ELSE LET to_write == Min(remaining, BlockSize - BlockIdSize - offset)
             part     == ReadBytes(s.disk[handle], offset, to_write)
         IN  IF remaining - to_write > 0
             THEN LET next_block ==
                          LoadBlockId(ReadBytes(s.disk[handle], offset + to_write, BlockIdSize))
                      tail == DurableCopy(s, next_block, 0, remaining - to_write)
                  IN  IF tail = Garbage THEN Garbage ELSE part \o tail
             ELSE part

ReadOverflowString(s, blk, offset) ==
    IF blk < MAXIMUM_BLOCK
    THEN \* on disk: read the length, then copy across the chained blocks
         IF blk \notin DOMAIN s.disk \/ ~InBounds(s.disk[blk], offset, Uint32Size) THEN Garbage
         ELSE LET length == LoadUint32(ReadBytes(s.disk[blk], offset, Uint32Size))
              IN  DurableCopy(s, blk, offset + Uint32Size, length)
    ELSE \* in memory: the side index gives the StringBlock, whose buffer is pinned
         IF blk \notin s.overflow_blocks \/ blk \notin DOMAIN s.buffers THEN Garbage
         ELSE ReadStringWithLength(s.buffers[blk], offset)

\* What ReadOverflowString does besides returning the string: the blocks it
\* pins, in order; the sizes it asks the buffer manager to allocate; the sizes
\* it asks the result vector's string heap for (StringVector::EmptyString); the
\* buffers it hands to the result vector (StringVector::AddHandle); and what is
\* left to copy when the durable loop ends.
NoHandle == [scratch |-> FALSE, block |-> INVALID_BLOCK, size |-> 0]

RECURSIVE DurableLoop(_, _, _, _)
DurableLoop(s, handle, offset, remaining) ==
    IF remaining = 0 THEN [pinned |-> <<>>, remaining |-> remaining]
    ELSE IF handle \notin DOMAIN s.disk \/ offset > GetStringSpace
    THEN [pinned |-> <<>>, remaining |-> remaining]
    ELSE LET to_write == Min(remaining, BlockSize - BlockIdSize - offset)
         IN  IF remaining - to_write > 0
             THEN LET next_block ==
                          LoadBlockId(ReadBytes(s.disk[handle], offset + to_write, BlockIdSize))
                      rest == DurableLoop(s, next_block, 0, remaining - to_write)
                  IN  [pinned |-> <<next_block>> \o rest.pinned, remaining |-> rest.remaining]
             ELSE [pinned |-> <<>>, remaining |-> remaining - to_write]

\* the durable read that allocates the scratch buffer only above one block
ReadOverflowStringTraceStrict(s, blk, offset) ==
    LET length == LoadUint32(ReadBytes(s.disk[blk], offset, Uint32Size))
        allocate_block == length > BlockSize
        loop == DurableLoop(s, blk, offset + Uint32Size, length)
    IN  [pinned |-> <<blk>> \o loop.pinned,
         remaining |-> loop.remaining,
         allocated |-> IF allocate_block THEN <<length>> ELSE <<>>,
         heap |-> IF allocate_block THEN <<>> ELSE <<length>>,
         handles |-> IF allocate_block
                     THEN <<[scratch |-> TRUE, block |-> INVALID_BLOCK, size |-> length]>>
                     ELSE <<>>]

ReadOverflowStringTrace(s, blk, offset) ==
    IF blk < MAXIMUM_BLOCK
    THEN LET length == LoadUint32(ReadBytes(s.disk[blk], offset, Uint32Size))
             allocate_block == length >= BlockSize
             loop == DurableLoop(s, blk, offset + Uint32Size, length)
         IN  [pinned |-> <<blk>> \o loop.pinned,
              remaining |-> loop.remaining,
              allocated |-> IF allocate_block THEN <<length>> ELSE <<>>,
              heap |-> IF allocate_block THEN <<>> ELSE <<length>>,
              handles |-> IF allocate_block
                          THEN <<[scratch |-> TRUE, block |-> INVALID_BLOCK, size |-> length]>>
                          ELSE <<>>]
    ELSE [pinned |-> <<blk>>, remaining |-> 0, allocated |-> <<>>, heap |-> <<>>,
          handles |-> <<[scratch |-> FALSE, block |-> blk, size |-> Len(s.buffers[blk])]>>]

\* ------------------------------------------------------------------------
\* Analyze.  An input vector in unified format: data, the selection vector
\* (row i is data[sel[i]], indices from 0) and the validity mask over data.
\* ------------------------------------------------------------------------
RECURSIVE AnalyzeLoopStrict(_, _, _, _)
AnalyzeLoopStrict(state, input, i, cnt) ==
    IF i = cnt THEN state
    ELSE LET idx == input.sel[i + 1]
             string_size == Len(input.data[idx + 1])
             s1 == IF idx \in input.validity
                   THEN [state EXCEPT
                           !.total_string_size = @ + string_size,
                           !.overflow_strings =
                               IF string_size > GetStringBlockLimit(BlockSize) THEN @ + 1 ELSE @]
                   ELSE state
         IN  AnalyzeLoopStrict(s1, input, i + 1, cnt)

\* Analyze that takes a string of exactly the block limit for an inline one
StringAnalyzeStrict(state, input, cnt) ==
    [state |-> AnalyzeLoopStrict([state EXCEPT !.count = @ + cnt], input, 0, cnt),
     result |-> TRUE]

RECURSIVE AnalyzeLoop(_, _, _, _)
AnalyzeLoop(state, input, i, cnt) ==
    IF i = cnt THEN state
    ELSE LET idx == input.sel[i + 1]
             string_size == Len(input.data[idx + 1])
             s1 == IF idx \in input.validity
                   THEN [state EXCEPT
                           !.total_string_size = @ + string_size,
                           !.overflow_strings =
                               IF string_size >= GetStringBlockLimit(BlockSize) THEN @ + 1 ELSE @]
                   ELSE state
         IN  AnalyzeLoop(s1, input, i + 1, cnt)

\* the analyze state after Analyze(input, cnt) and what the call returns
StringAnalyze(state, input, cnt) ==
    [state |-> AnalyzeLoop([state EXCEPT !.count = @ + cnt], input, 0, cnt),
     result |-> TRUE]

StringFinalAnalyze(state) ==
    state.count * Int32Size + state.total_string_size
        + state.overflow_strings * BIG_STRING_MARKER_SIZE

\* ------------------------------------------------------------------------
\* Segment reader
\* ------------------------------------------------------------------------
FetchStringFromDict(s, blk, dict_end, dict_offset, string_length) ==
    IF dict_offset >= 0
    THEN ReadString(blk, dict_end - dict_offset, string_length)
    ELSE LET marker == ReadStringMarker(blk, dict_end - AbsValue(dict_offset))
         IN  ReadOverflowString(s, marker.block_id, marker.offset)

\* A result vector: position k is index k + 1; Unset is an entry never written
Unset == <<-2>>

EmptyVector(n) == [k \in 1..n |-> Unset]

\* the value of one row from its offset pair (the body shared by the readers)
DecodeRow(s, blk, current_offset, previous_offset) ==
    FetchStringFromDict(s, blk, GetDictionaryEnd(blk), current_offset,
                        AbsValue(current_offset) - AbsValue(previous_offset))

RECURSIVE ScanLoop(_, _, _, _, _, _)
ScanLoop(s, blk, a, i, previous_offset, result) ==
    IF i = a.scan_count THEN result
    ELSE LET current_offset == base_data(blk, a.start + i)
         IN  ScanLoop(s, blk, a, i + 1, base_data(blk, a.start + i),
                      [result EXCEPT ![a.result_offset + i + 1] =
                           DecodeRow(s, blk, current_offset, previous_offset)])

\* a scan that reads base_data[start - 1] also when start is 0
StringScanPartialNoGuard(s, blk, start, scan_count, result, result_offset) ==
    ScanLoop(s, blk, [start |-> start, scan_count |-> scan_count, result_offset |-> result_offset],
             0, base_data(blk, start - 1), result)

\* a partial scan that writes from the start of the result vector
StringScanPartialNoOffset(s, blk, start, scan_count, result, result_offset) ==
    LET previous_offset == IF start > 0 THEN base_data(blk, start - 1) ELSE 0
    IN  ScanLoop(s, blk, [start |-> start, scan_count |-> scan_count, result_offset |-> 0],
                 0, previous_offset, result)

StringScanPartial(s, blk, start, scan_count, result, result_offset) ==
    LET previous_offset == IF start > 0 THEN base_data(blk, start - 1) ELSE 0
    IN  ScanLoop(s, blk, [start |-> start, scan_count |-> scan_count,
                          result_offset |-> result_offset],
                 0, previous_offset, result)

StringScan(s, blk, start, scan_count, result) ==
    StringScanPartial(s, blk, start, scan_count, result, 0)

\* a Select that keeps a running cursor: the previous offset is that of the
\* row selected before, as in a scan
RECURSIVE SelectCursorLoop(_, _, _, _, _, _, _)
SelectCursorLoop(s, blk, start, sel, i, prev_offset, result) ==
    IF i > Len(sel) THEN result
    ELSE LET index == start + sel[i]
             current_offset == base_data(blk, index)
         IN  SelectCursorLoop(s, blk, start, sel, i + 1, current_offset,
                              [result EXCEPT ![i] = DecodeRow(s, blk, current_offset, prev_offset)])

SelectRunningCursor(s, blk, start, result, sel) ==
    IF sel = <<>> THEN result
    ELSE LET first == start + sel[1]
         IN  SelectCursorLoop(s, blk, start, sel, 1,
                              IF first > 0 THEN base_data(blk, first - 1) ELSE 0, result)

Select(s, blk, start, result, sel) ==
    [i \in 1..Len(result) |->
        IF i > Len(sel) THEN result[i]
        ELSE LET index == start + sel[i]
                 current_offset == base_data(blk, index)
                 prev_offset == IF index > 0 THEN base_data(blk, index - 1) ELSE 0
             IN  DecodeRow(s, blk, current_offset, prev_offset)]

\* a fetch without the row 0 case
StringFetchRowNoEdgeCase(s, blk, row_id, result, result_idx) ==
    LET dict_offset == base_data(blk, row_id)
    IN  [result EXCEPT ![result_idx + 1] =
            FetchStringFromDict(s, blk, GetDictionaryEnd(blk), dict_offset,
                                AbsValue(dict_offset) - AbsValue(base_data(blk, row_id - 1)))]

StringFetchRow(s, blk, row_id, result, result_idx) ==
    LET dict_offset == base_data(blk, row_id)
        string_length == IF row_id = 0 THEN AbsValue(dict_offset)
                         ELSE AbsValue(dict_offset) - AbsValue(base_data(blk, row_id - 1))
    IN  [result EXCEPT ![result_idx + 1] =
            FetchStringFromDict(s, blk, GetDictionaryEnd(blk), dict_offset, string_length)]

\* a GetOrInsertHandle that pins on every call
GetOrInsertHandleAlwaysPin(fetch_handles, primary_id) ==
    [handles |-> WithKey(fetch_handles, primary_id, [block |-> primary_id]),
     handle  |-> [block |-> primary_id],
     pinned  |-> <<primary_id>>]

\* the fetch state's handles after GetOrInsertHandle on a segment whose primary
\* block is primary_id, the handle it returns and the blocks it pinned
GetOrInsertHandle(fetch_handles, primary_id) ==
    IF primary_id \notin DOMAIN fetch_handles
    THEN \* not pinned yet: pin it
         [handles |-> WithKey(fetch_handles, primary_id, [block |-> primary_id]),
          handle  |-> [block |-> primary_id],
          pinned  |-> <<primary_id>>]
    ELSE \* already pinned: use the pinned handle
         [handles |-> fetch_handles, handle |-> fetch_handles[primary_id], pinned |-> <<>>]

\* ------------------------------------------------------------------------
\* Segment writer
\* ------------------------------------------------------------------------
Null == [present |-> FALSE, blocks |-> <<>>]

\* InitSegment that ignores the serialized state
StringInitSegmentDropState(blk, block_id, segment_state) ==
    [block |-> IF block_id = INVALID_BLOCK
               THEN SetDictionary(blk, [size |-> 0, end |-> SegmentSize]) ELSE blk,
     head |-> <<>>, overflow_blocks |-> {}, on_disk_blocks |-> <<>>,
     pinned |-> [primary |-> block_id = INVALID_BLOCK, overflow |-> {}]]

\* InitSegment that writes a fresh header whatever the block id is
StringInitSegmentAlwaysFresh(blk, block_id, segment_state) ==
    [block |-> SetDictionary(blk, [size |-> 0, end |-> SegmentSize]),
     head |-> <<>>, overflow_blocks |-> {},
     on_disk_blocks |-> IF segment_state.present THEN segment_state.blocks ELSE <<>>,
     pinned |-> [primary |-> TRUE, overflow |-> {}]]

\* the block after InitSegment, the fields of the segment state it returns, and
\* the blocks it pinned: the primary block when it writes the header, and never
\* an overflow block
StringInitSegment(blk, block_id, segment_state) ==
    [block |-> IF block_id = INVALID_BLOCK
               THEN SetDictionary(blk, [size |-> 0, end |-> SegmentSize]) ELSE blk,
     head |-> <<>>, overflow_blocks |-> {},
     on_disk_blocks |-> IF segment_state.present THEN segment_state.blocks ELSE <<>>,
     pinned |-> [primary |-> block_id = INVALID_BLOCK, overflow |-> {}]]

IsOverflow(string) == Len(string) >= GetStringBlockLimit(BlockSize)

\* dictionary bytes a value takes: its length, or the marker size
RequiredSpace(string) == IF IsOverflow(string) THEN BIG_STRING_MARKER_SIZE ELSE Len(string)

\* the capacity check made before a value is appended: room for the offset
\* entry and for the value's dictionary bytes
HasSpace(blk, cnt, string) ==
    /\ RemainingSpace(blk, cnt) >= Int32Size
    /\ RequiredSpace(string) <= RemainingSpace(blk, cnt) - Int32Size

\* the check as a caller that treats RemainingSpace as the room for the value alone
AdvisorySpace(blk, cnt, string) == RemainingSpace(blk, cnt) >= RequiredSpace(string)

\* Append of one value, the capacity check already made
StringAppend(s, blk, cnt, string, alloc_ok) ==
    LET dict == GetDictionary(blk)
        end  == dict.end
        new_size == dict.size + RequiredSpace(string)
        dict_pos == end - new_size
        entry_at == DICTIONARY_HEADER_SIZE + Int32Size * cnt
    IN  IF IsOverflow(string)
        THEN LET w == WriteString(s, string, alloc_ok)
                 b1 == WriteStringMarker(SetDictionary(blk, [dict EXCEPT !.size = new_size]),
                                         dict_pos, w.result_block, w.result_offset)
             IN  IF w.threw
                 THEN [s |-> w.s, block |-> blk, count |-> cnt, threw |-> TRUE]
                 ELSE [s |-> w.s,
                       block |-> WriteBytes(b1, entry_at, Store(-new_size, Int32Size)),
                       count |-> cnt + 1, threw |-> FALSE]
        ELSE LET b1 == WriteBytes(SetDictionary(blk, [dict EXCEPT !.size = new_size]),
                                  dict_pos, string)
             IN  [s |-> s,
                  block |-> WriteBytes(b1, entry_at, Store(new_size, Int32Size)),
                  count |-> cnt + 1, threw |-> FALSE]

\* FinalizeAppend that moves the dictionary and does not rewrite the header
FinalizeAppendKeepEnd(blk, cnt) ==
    LET dict == GetDictionary(blk)
        offset_size == DICTIONARY_HEADER_SIZE + cnt * Int32Size
        total_size  == offset_size + dict.size
    IN  IF total_size >= GetCompactionFlushLimit(BlockSize)
        THEN [block |-> blk, result |-> SegmentSize]
        ELSE [block |-> WriteBytes(blk, offset_size,
                                   ReadBytes(blk, dict.end - dict.size, dict.size)),
              result |-> total_size]

\* FinalizeAppend that still compacts a block exactly at the flush limit
FinalizeAppendStrictLimit(blk, cnt) ==
    LET dict == GetDictionary(blk)
        offset_size == DICTIONARY_HEADER_SIZE + cnt * Int32Size
        total_size  == offset_size + dict.size
        move_amount == SegmentSize - total_size
        moved == WriteBytes(blk, offset_size, ReadBytes(blk, dict.end - dict.size, dict.size))
    IN  IF total_size > GetCompactionFlushLimit(BlockSize)
        THEN [block |-> blk, result |-> SegmentSize]
        ELSE [block |-> SetDictionary(moved, [dict EXCEPT !.end = dict.end - move_amount]),
              result |-> total_size]

\* the block after FinalizeAppend and the size it returns
FinalizeAppend(blk, cnt) ==
    LET dict == GetDictionary(blk)
        offset_size == DICTIONARY_HEADER_SIZE + cnt * Int32Size
        total_size  == offset_size + dict.size
    IN  IF total_size >= GetCompactionFlushLimit(BlockSize)
        THEN [block |-> blk, result |-> SegmentSize]
        ELSE LET move_amount == SegmentSize - total_size
                 moved == WriteBytes(blk, offset_size,
                                     ReadBytes(blk, dict.end - dict.size, dict.size))
             IN  [block |-> SetDictionary(moved, [dict EXCEPT !.end = dict.end - move_amount]),
                  result |-> total_size]

\* D_ASSERT(dict.end == segment.SegmentSize()) at the head of FinalizeAppend
FinalizeAppendAssert(blk) == GetDictionary(blk).end = SegmentSize

\* ------------------------------------------------------------------------
\* State serializer.  The serialization framework writes a list as its length
\* followed by its elements, under field id 1.
\* ------------------------------------------------------------------------
\* SerializeState that emits a state for an empty list too
SerializeStateAlways(blocks) == [present |-> TRUE, blocks |-> blocks]

SerializeState(blocks) == IF blocks = <<>> THEN Null ELSE [present |-> TRUE, blocks |-> blocks]

WriteProperty(field, list) == <<field, Len(list)>> \o list

ReadProperty(field, wire) ==
    IF Len(wire) >= 2 /\ wire[1] = field /\ Len(wire) = wire[2] + 2
    THEN SubSeq(wire, 3, Len(wire)) ELSE <<>>

Serialize(state) == WriteProperty(1, state.blocks)

DeserializeState(wire) == [present |-> TRUE, blocks |-> ReadProperty(1, wire)]

\* ------------------------------------------------------------------------
\* Initial state: InitSegment on a fresh block (block id INVALID_BLOCK)
\* ------------------------------------------------------------------------
NoWriter == [configured |-> FALSE, block_id |-> INVALID_BLOCK, offset |-> 0]

NewWriter == [configured |-> TRUE, block_id |-> INVALID_BLOCK, offset |-> 0]

\* the block manager's free list when the segment is created
FreeIdChoices ==
    { [free_list |-> <<>>, max_block |-> 0],
      [free_list |-> <<3, 1>>, max_block |-> 4] }

\* StringAnalyzeState as constructed
StringInitAnalyze == [count |-> 0, total_string_size |-> 0, overflow_strings |-> 0]

\* no scan in progress
NoScan == [active |-> FALSE, row_index |-> 0, base |-> 0]

NoReload == [stage |-> "none", state |-> Null, wire |-> <<>>, source |-> <<>>,
             on_disk_blocks |-> <<>>]

Init ==
    LET seg == StringInitSegment(FreshBuffer(BlockSize), INVALID_BLOCK, Null)
    IN  /\ block = seg.block
        /\ count = 0
        /\ head = seg.head
        /\ overflow_blocks = seg.overflow_blocks
        /\ on_disk_blocks = seg.on_disk_blocks
        /\ overflow_writer \in {NoWriter, NewWriter}
        /\ free_ids \in FreeIdChoices
        /\ overflow_writer = NoWriter => free_ids = [free_list |-> <<>>, max_block |-> 0]
        /\ buffers = NoMap
        /\ temp_id = MAXIMUM_BLOCK
        /\ disk = NoMap
        /\ appended = <<>>
        /\ last_call = [op |-> "InitSegment", result |-> 0]
        /\ fault = "none"
        /\ reload = NoReload
        /\ advisory = FALSE
        /\ analyze_state = StringInitAnalyze
        /\ analyzed = <<>>
        /\ written = <<>>
        /\ result_data = <<>>
        /\ scan_state = NoScan
        /\ handles = NoMap
        /\ pin_calls = <<>>
        /\ fetched_ids = {}

\* ------------------------------------------------------------------------
\* Actions
\* ------------------------------------------------------------------------
SetStore(s) ==
    /\ head' = s.head
    /\ overflow_blocks' = s.overflow_blocks
    /\ on_disk_blocks' = s.on_disk_blocks
    /\ overflow_writer' = s.overflow_writer
    /\ buffers' = s.buffers
    /\ temp_id' = s.temp_id
    /\ disk' = s.disk
    /\ free_ids' = s.free_ids

StoreUnchanged ==
    UNCHANGED <<head, overflow_blocks, on_disk_blocks, overflow_writer,
                buffers, temp_id, disk, free_ids>>

\* Append(v): RemainingSpace's assertions hold, the value fits, nothing throws
AppendValue(v) ==
    /\ fault = "none"
    /\ reload.stage = "none"
    /\ count < MaxRows
    /\ RemainingSpaceAsserts(block, count)
    /\ HasSpace(block, count, v)
    /\ LET r == StringAppend(OverflowStore, block, count, v, TRUE)
       IN  /\ SetStore(r.s)
           /\ block' = r.block
           /\ count' = r.count
    /\ appended' = Append(appended, v)
    /\ last_call' = [op |-> "Append", result |-> 1]
    /\ UNCHANGED <<fault, reload, advisory>>
    /\ UNCHANGED other_vars

\* Append(v) of an overflow value when the buffer manager fails to allocate
\* (or pin) the in-memory buffer: the exception propagates
AppendThrows(v) ==
    /\ fault = "none"
    /\ reload.stage = "none"
    /\ count < MaxRows
    /\ RemainingSpaceAsserts(block, count)
    /\ HasSpace(block, count, v)
    /\ IsOverflow(v)
    /\ ~overflow_writer.configured
    /\ LET r == StringAppend(OverflowStore, block, count, v, FALSE)
       IN  /\ SetStore(r.s)
           /\ block' = r.block
           /\ count' = r.count
    /\ last_call' = [op |-> "AppendThrew", result |-> 0]
    /\ UNCHANGED <<appended, fault, reload, advisory>>
    /\ UNCHANGED other_vars

\* Append on a block whose dictionary.end is not the segment size: D_ASSERT
AppendAborts ==
    /\ fault = "none"
    /\ reload.stage = "none"
    /\ ~RemainingSpaceAsserts(block, count)
    /\ fault' = "RemainingSpace"
    /\ UNCHANGED <<block, count, appended, last_call, reload, advisory>>
    /\ UNCHANGED other_vars
    /\ StoreUnchanged

Finalize ==
    /\ fault = "none"
    /\ reload.stage = "none"
    /\ FinalizeAppendAssert(block)
    /\ LET f == FinalizeAppend(block, count)
       IN  /\ block' = f.block
           /\ last_call' = [op |-> "FinalizeAppend", result |-> f.result]
    /\ UNCHANGED <<count, appended, fault, reload, advisory>>
    /\ UNCHANGED other_vars
    /\ StoreUnchanged

FinalizeAborts ==
    /\ fault = "none"
    /\ reload.stage = "none"
    /\ ~FinalizeAppendAssert(block)
    /\ fault' = "FinalizeAppend"
    /\ UNCHANGED <<block, count, appended, last_call, reload, advisory>>
    /\ UNCHANGED other_vars
    /\ StoreUnchanged

\* checkpoint, after the finalizer: SerializeState, the serializer,
\* DeserializeState, InitSegment of the reloaded segment
DoSerializeState ==
    /\ fault = "none"
    /\ reload.stage = "none"
    /\ last_call.op = "FinalizeAppend"
    /\ reload' = [NoReload EXCEPT !.stage = "serialized",
                                  !.state = SerializeState(on_disk_blocks),
                                  !.source = on_disk_blocks]
    /\ UNCHANGED <<block, count, appended, last_call, fault, advisory>>
    /\ UNCHANGED other_vars
    /\ StoreUnchanged

DoSerialize ==
    /\ reload.stage = "serialized"
    /\ reload.state.present
    /\ reload' = [reload EXCEPT !.stage = "written", !.wire = Serialize(reload.state)]
    /\ UNCHANGED <<block, count, appended, last_call, fault, advisory>>
    /\ UNCHANGED other_vars
    /\ StoreUnchanged

DoDeserializeState ==
    /\ reload.stage = "written"
    /\ reload' = [reload EXCEPT !.stage = "deserialized",
                                !.state = DeserializeState(reload.wire)]
    /\ UNCHANGED <<block, count, appended, last_call, fault, advisory>>
    /\ UNCHANGED other_vars
    /\ StoreUnchanged

\* InitSegment of the reloaded segment: block id 0 stands for any valid id
DoReload ==
    /\ \/ reload.stage = "deserialized"
       \/ reload.stage = "serialized" /\ ~reload.state.present
    /\ LET seg == StringInitSegment(block, 0, reload.state)
       IN  /\ block' = seg.block
           /\ reload' = [reload EXCEPT !.stage = "reloaded",
                                       !.state = Null,
                                       !.on_disk_blocks = seg.on_disk_blocks]
    /\ UNCHANGED <<count, appended, last_call, fault, advisory>>
    /\ UNCHANGED other_vars
    /\ StoreUnchanged

\* Append(v) by a caller that only verified RemainingSpace >= the value's
\* dictionary bytes, where the offset entry no longer fits beside them.  An
\* entry that lies past the end of the block is a write outside the buffer.
AppendAdvisory(v) ==
    /\ fault = "none"
    /\ reload.stage = "none"
    /\ count < MaxRows
    /\ RemainingSpaceAsserts(block, count)
    /\ AdvisorySpace(block, count, v)
    /\ ~HasSpace(block, count, v)
    /\ LET r == StringAppend(OverflowStore, block, count, v, TRUE)
       IN  /\ SetStore(r.s)
           /\ block' = r.block
           /\ count' = r.count
    /\ fault' = IF InBounds(block, DICTIONARY_HEADER_SIZE + Int32Size * count, Int32Size)
                THEN "none" ELSE "out_of_bounds"
    /\ appended' = Append(appended, v)
    /\ last_call' = [op |-> "Append", result |-> 1]
    /\ advisory' = TRUE
    /\ UNCHANGED reload
    /\ UNCHANGED other_vars

\* the frame of an operation that touches neither the segment nor its store
SegmentUnchanged ==
    /\ UNCHANGED <<block, count, appended, fault, reload, advisory>>
    /\ StoreUnchanged

\* a row that is not valid, in the history of the analyze pass
NullRow == <<-3>>

\* the rows of an input vector as Analyze sees them
RowsOf(input, cnt) ==
    [i \in 1..cnt |-> IF input.sel[i] \in input.validity
                      THEN input.data[input.sel[i] + 1] ELSE NullRow]

\* the data vectors handed to Analyze: two entries each
AnalyzeData ==
    { <<MkString(3, 96), MkString(StringBlockLimit, 32)>>,
      <<MkString(StringBlockLimit - 1, 16), MkString(BlockSize + 1, 1)>>,
      <<MkString(0, 0), MkString(StringBlockLimit + 1, 64)>> }

AnalyzeInputs ==
    { [data |-> data, sel |-> sel, validity |-> validity] :
        data \in AnalyzeData,
        sel \in UNION { [1..n -> {0, 1}] : n \in 0..MaxVector },
        validity \in SUBSET {0, 1} }

\* Analyze(input, count) on the analyze state
DoAnalyze(input) ==
    /\ Len(analyzed) + Len(input.sel) <= MaxAnalyzed
    /\ LET r == StringAnalyze(analyze_state, input, Len(input.sel))
       IN  /\ analyze_state' = r.state
           /\ last_call' = [op |-> "Analyze", result |-> r.result]
    /\ analyzed' = analyzed \o RowsOf(input, Len(input.sel))
    /\ SegmentUnchanged
    /\ UNCHANGED <<written, result_data, scan_state, handles, pin_calls, fetched_ids>>

\* the strings handed to the overflow store directly: a short one, one that
\* takes half a block with its length prefix, one that takes a whole block
\* with it, one as long as a block and one as long as two
OverflowValues ==
    { MkString(StringBlockLimit, 32), MkString(BlockSize \div 2 - Uint32Size, 5),
      MkString(BlockSize - Uint32Size, 9), MkString(BlockSize, 3),
      MkString(2 * BlockSize, 11) }

\* Write(v) on the overflow store
DoWrite(v) ==
    /\ Len(written) < MaxWrites
    /\ LET w == WriteString(OverflowStore, v, TRUE)
       IN  /\ SetStore(w.s)
           /\ written' = Append(written, [block_id |-> w.result_block,
                                          offset |-> w.result_offset, value |-> v])
           /\ last_call' = [op |-> "Write", result |-> w.result_offset]
    /\ UNCHANGED <<block, count, appended, fault, reload, advisory>>
    /\ UNCHANGED <<analyze_state, analyzed, result_data, scan_state, handles, pin_calls,
                   fetched_ids>>

\* Read(block_id, offset) of a marker the store returned
DoRead(k) ==
    /\ k \in 1..Len(written)
    /\ last_call' =
          [op |-> "Read",
           result |-> [string |-> ReadOverflowString(OverflowStore, written[k].block_id,
                                                     written[k].offset),
                       trace  |-> ReadOverflowStringTrace(OverflowStore, written[k].block_id,
                                                          written[k].offset)]]
    /\ SegmentUnchanged
    /\ UNCHANGED other_vars

\* an entry of the result vector filled from an earlier segment
Earlier == <<-4>>

\* the values of the segments that are scanned and fetched
ReadValues == {MkString(0, 0), MkString(3, 96), MkString(StringBlockLimit, 32)}

\* a scan starts at the segment's first row; the vector already holds base
\* rows of an earlier segment and has room for one row more than the segment's
InitScan(base) ==
    /\ fault = "none"
    /\ ~scan_state.active
    /\ count >= 1
    /\ scan_state' = [active |-> TRUE, row_index |-> 0, base |-> base]
    /\ result_data' = [k \in 1..(base + count + 1) |-> IF k <= base THEN Earlier ELSE Unset]
    /\ last_call' = [op |-> "InitScan", result |-> 0]
    /\ SegmentUnchanged
    /\ UNCHANGED <<analyze_state, analyzed, written, handles, pin_calls, fetched_ids>>

\* ScanPartial of the next scan_count rows into the vector, after the rows
\* already there
DoScanPartial(scan_count) ==
    /\ scan_state.active
    /\ scan_state.row_index + scan_count <= count
    /\ result_data' = StringScanPartial(OverflowStore, block, scan_state.row_index, scan_count,
                                        result_data, scan_state.base + scan_state.row_index)
    /\ scan_state' = [scan_state EXCEPT !.row_index = @ + scan_count]
    /\ last_call' = [op |-> "ScanPartial", result |-> scan_count]
    /\ SegmentUnchanged
    /\ UNCHANGED <<analyze_state, analyzed, written, handles, pin_calls, fetched_ids>>

\* the segments that share the fetch state: two of them lie in one block
Segments == 1..MaxSegments

\* segment.block->BlockId()
PrimaryBlockId(segment) == (segment + 1) \div 2

\* the block of the segments that are not the one being written: one row
OtherBlock ==
    StringAppend(OverflowStore,
                 StringInitSegment(FreshBuffer(BlockSize), INVALID_BLOCK, Null).block,
                 0, MkString(3, 96), TRUE).block

\* the bytes behind a pinned handle
HandlePtr(handle) == IF handle.block = PrimaryBlockId(1) THEN block ELSE OtherBlock

RowCount(segment) == IF PrimaryBlockId(segment) = PrimaryBlockId(1) THEN count ELSE 1

\* FetchRow(segment, row_id) through the shared fetch state
DoFetchRow(segment, row_id) ==
    /\ fault = "none"
    /\ row_id < RowCount(segment)
    /\ Len(pin_calls) < MaxPins
    /\ LET h == GetOrInsertHandle(handles, PrimaryBlockId(segment))
       IN  /\ handles' = h.handles
           /\ pin_calls' = pin_calls \o h.pinned
           /\ result_data' = StringFetchRow(OverflowStore, HandlePtr(h.handle), row_id,
                                            EmptyVector(1), 0)
    /\ fetched_ids' = fetched_ids \cup {PrimaryBlockId(segment)}
    /\ last_call' = [op |-> "FetchRow", result |-> [segment |-> segment, row_id |-> row_id]]
    /\ SegmentUnchanged
    /\ UNCHANGED <<analyze_state, analyzed, written, scan_state>>

Next ==
    \/ \E v \in Values : AppendValue(v)
    \/ \E v \in Values : AppendThrows(v)
    \/ AppendAborts
    \/ Finalize
    \/ FinalizeAborts
    \/ DoSerializeState
    \/ DoSerialize
    \/ DoDeserializeState
    \/ DoReload

Spec == Init /\ [][Next]_vars

\* the analyze pass on its own
NextAnalyze == \E input \in AnalyzeInputs : DoAnalyze(input)

SpecAnalyze == Init /\ [][NextAnalyze]_vars

\* the overflow store on its own
NextOverflow ==
    \/ \E v \in OverflowValues : DoWrite(v)
    \/ \E k \in 1..MaxWrites : DoRead(k)

SpecOverflow == Init /\ [][NextOverflow]_vars

\* a segment is written, finalized or not, and then scanned piece by piece
NextScan ==
    \/ \E v \in ReadValues : ~scan_state.active /\ AppendValue(v)
    \/ ~scan_state.active /\ Finalize
    \/ \E base \in 0..MaxBase : InitScan(base)
    \/ \E scan_count \in 1..MaxRows : DoScanPartial(scan_count)

SpecScan == Init /\ [][NextScan]_vars

\* a segment is written and then fetched from, with other segments, through
\* one fetch state
NextFetch ==
    \/ \E v \in ReadValues : fetched_ids = {} /\ AppendValue(v)
    \/ \E segment \in Segments : \E row_id \in 0..(MaxRows - 1) : DoFetchRow(segment, row_id)

SpecFetch == Init /\ [][NextFetch]_vars

\* the same program with callers that treat RemainingSpace as advisory
NextAdvisory ==
    \/ Next
    \/ \E v \in Values : AppendAdvisory(v)

SpecAdvisory == Init /\ [][NextAdvisory]_vars

\* ------------------------------------------------------------------------
\* What the claims read off a state
\* ------------------------------------------------------------------------
MaxSelect == 2

\* Scan(0, count) into an empty result vector
ScanAll == StringScan(OverflowStore, block, 0, count, EmptyVector(count))

\* magnitude of the offset entry of row i, 0 before the first row
Magnitude(blk, i) == IF i < 0 THEN 0 ELSE AbsValue(base_data(blk, i))

Rows == 0..(count - 1)

TotalSize(blk, cnt) == DICTIONARY_HEADER_SIZE + cnt * Int32Size + GetDictionary(blk).size

Compacts(blk, cnt) == TotalSize(blk, cnt) < GetCompactionFlushLimit(BlockSize)

\* C1: round trip.  In every state reached by appends that fit, Scan(0, n)
\* returns exactly the n values appended, in append order.
C1_RoundTrip ==
    /\ count = Len(appended)
    /\ ScanAll = appended

C1_Witness ==
    /\ count >= 3
    /\ \E i, j, k \in 1..count :
          /\ IsOverflow(appended[i])
          /\ ~IsOverflow(appended[j]) /\ appended[j] # <<>>
          /\ j < k /\ appended[k] = <<>>
    /\ ScanAll = appended

\* C2: a value at or above the block limit has a negative entry whose magnitude
\* grows by the marker size, and its marker resolves through the overflow store
\* to the value, on either tier; a shorter value has a non-negative entry whose
\* magnitude grows by the value's length.
C2_OffsetEntries ==
    \A i \in Rows :
        LET v == appended[i + 1]
            entry == base_data(block, i)
            increment == Magnitude(block, i) - Magnitude(block, i - 1)
            marker == ReadStringMarker(block, GetDictionaryEnd(block) - AbsValue(entry))
        IN  IF IsOverflow(v)
            THEN /\ entry < 0
                 /\ increment = BIG_STRING_MARKER_SIZE
                 /\ ReadOverflowString(OverflowStore, marker.block_id, marker.offset) = v
                 /\ overflow_writer.configured <=> marker.block_id < MAXIMUM_BLOCK
            ELSE /\ entry >= 0
                 /\ increment = Len(v)

C2_Witness ==
    /\ overflow_writer.configured
    /\ Len(on_disk_blocks) >= 2
    /\ \E i \in 2..count :
          /\ Len(appended[i]) > BlockSize
          /\ appended[i - 1] # <<>> /\ ~IsOverflow(appended[i - 1])
          /\ base_data(block, i - 1) = -(Len(appended[i - 1]) + BIG_STRING_MARKER_SIZE)

\* C3: FetchRow(i) returns the value at position i of Scan(0, n), for every row
\* i; for row 0 the previous offset is 0 (offset[-1], the header, is not read).
C3_FetchAgreesWithScan ==
    LET scanned == ScanAll
    IN  \A i \in Rows :
            LET fetched == StringFetchRow(OverflowStore, block, i, EmptyVector(1), 0)[1]
            IN  fetched = scanned[i + 1] /\ fetched # Garbage

C3_Witness ==
    /\ count >= 2
    /\ appended[1] # <<>> /\ ~IsOverflow(appended[1])
    /\ StringFetchRow(OverflowStore, block, 0, EmptyVector(1), 0)[1] = appended[1]
    /\ StringFetchRow(OverflowStore, block, 1, EmptyVector(1), 0)[1] = appended[2]

\* C4: Select over any list of row indices, unsorted and with repetitions,
\* returns at each position k the value of row indices[k], whatever the other
\* indices of the list are.
C4_SelectPerIndex ==
    \A n \in 1..MaxSelect :
        \A sel \in [1..n -> Rows] :
            Select(OverflowStore, block, 0, EmptyVector(n), sel)
                = [k \in 1..n |-> appended[sel[k] + 1]]

C4_Witness ==
    /\ count >= 3
    /\ appended[1] # appended[3] /\ appended[2] # <<>> /\ appended[1] # <<>>
    /\ Select(OverflowStore, block, 0, EmptyVector(2), <<2, 0>>) = <<appended[3], appended[1]>>
    /\ Select(OverflowStore, block, 0, EmptyVector(2), <<0, 0>>) = <<appended[1], appended[1]>>

\* C5: when FinalizeAppend compacts, dictionary.end becomes
\* HeaderSize + count * 4 + dictionary.size, which is also the size returned;
\* dictionary.size and every offset entry are unchanged and Scan(0, count) on
\* the compacted block still returns the appended values.
C5_Compaction ==
    (FinalizeAppendAssert(block) /\ Compacts(block, count)) =>
        LET f == FinalizeAppend(block, count)
            total == TotalSize(block, count)
        IN  /\ GetDictionary(f.block).end = total
            /\ GetDictionary(f.block).size = GetDictionary(block).size
            /\ \A i \in Rows : base_data(f.block, i) = base_data(block, i)
            /\ f.result = total
            /\ StringScan(OverflowStore, f.block, 0, count, EmptyVector(count)) = appended

C5_Witness ==
    /\ last_call.op = "FinalizeAppend"
    /\ last_call.result < SegmentSize
    /\ count >= 2
    /\ \E i \in 1..count : IsOverflow(appended[i])
    /\ \E i \in 1..count : ~IsOverflow(appended[i]) /\ appended[i] # <<>>
    /\ GetDictionary(block).end = last_call.result
    /\ last_call.result = TotalSize(block, count)
    /\ ScanAll = appended

\* C7: on a dense block (total size at or above the compaction flush limit)
\* FinalizeAppend leaves every byte of the block as it is and returns the full
\* segment size, and so does a second call.
C7_DenseNoOp ==
    (FinalizeAppendAssert(block) /\ ~Compacts(block, count)) =>
        LET f == FinalizeAppend(block, count)
        IN  /\ f.block = block
            /\ f.result = SegmentSize
            /\ FinalizeAppend(f.block, count) = f

C7_Witness ==
    /\ last_call.op = "FinalizeAppend"
    /\ last_call.result = SegmentSize
    /\ TotalSize(block, count) = GetCompactionFlushLimit(BlockSize)
    /\ GetDictionary(block).end = SegmentSize

\* C6 as stated: appends made once RemainingSpace is at least the value's
\* length (inline) or the marker size (overflow) keep
\* 8 + 4 * count + dictionary.size within the block.
C6_NonOverlapAdvisory ==
    DICTIONARY_HEADER_SIZE + Int32Size * count + GetDictionary(block).size <= BlockSize

\* C6, amended: appends made once RemainingSpace is at least the value's
\* dictionary bytes plus the 4 bytes of its offset entry keep
\* 8 + 4 * count + dictionary.size within the block, so the offset array ends
\* at or before the start of the dictionary region.
C6_NonOverlap ==
    ~advisory =>
        /\ DICTIONARY_HEADER_SIZE + Int32Size * count + GetDictionary(block).size <= BlockSize
        /\ DICTIONARY_HEADER_SIZE + Int32Size * count
               <= GetDictionaryEnd(block) - GetDictionary(block).size

C6_Witness ==
    /\ ~advisory
    /\ count >= 3
    /\ RemainingSpace(block, count) < Int32Size
    /\ RemainingSpace(block, count) >= 0
    /\ GetDictionaryEnd(block) = SegmentSize

\* C8: a segment with no durable overflow block serializes to no state and
\* reloads with an empty durable block list; with k >= 1 durable blocks,
\* SerializeState, the serializer, DeserializeState and InitSegment give a
\* durable block list equal to the original, element by element.
C8_StateRoundTrip ==
    /\ reload.stage = "serialized" => (reload.state.present <=> reload.source # <<>>)
    /\ reload.stage = "serialized" /\ reload.state.present => reload.state.blocks = reload.source
    /\ reload.stage = "reloaded" => reload.on_disk_blocks = reload.source

C8_Witness ==
    /\ reload.stage = "reloaded"
    /\ Len(reload.source) >= 2
    /\ reload.source[1] > reload.source[2]
    /\ reload.on_disk_blocks = reload.source

\* what holds of the offsets and the header before compaction
AccountingInv ==
    GetDictionaryEnd(block) = SegmentSize =>
        /\ \A i \in Rows : Magnitude(block, i - 1) <= Magnitude(block, i)
        /\ Magnitude(block, count - 1) = GetDictionary(block).size
        /\ RemainingSpace(block, count)
               = BlockSize - (GetDictionary(block).size + count * 4 + DICTIONARY_HEADER_SIZE)
        /\ RemainingSpace(block, count) >= 0

\* what one append adds
AppendAccounting ==
    appended' # appended =>
        LET v == appended'[Len(appended')]
        IN  /\ count' = count + 1
            /\ GetDictionary(block').size = GetDictionary(block).size + RequiredSpace(v)
            /\ RemainingSpace(block', count')
                   = RemainingSpace(block, count) - (RequiredSpace(v) + Int32Size)

\* C9: an append adds one row and the increment (length, or marker size) to
\* dictionary.size, so RemainingSpace drops by increment + 4; before compaction
\* the entries' magnitudes never decrease along the rows, the last one equals
\* dictionary.size, and RemainingSpace is
\* BlockSize - (dictionary.size + count * 4 + HeaderSize).
C9_AppendAccounting == []AccountingInv /\ [][AppendAccounting]_vars

C9_Witness ==
    /\ count >= 3
    /\ GetDictionaryEnd(block) = SegmentSize
    /\ \E i \in 1..(count - 1) : IsOverflow(appended[i]) /\ appended[i + 1] = <<>>
    /\ Magnitude(block, count - 1) = GetDictionary(block).size
    /\ GetDictionary(block).size > 0

\* the dictionary region of a block
DictionaryRegion(blk) ==
    LET dict == GetDictionary(blk)
    IN  ReadBytes(blk, dict.end - dict.size, dict.size)

\* earlier rows are left alone; a failed append changes nothing
AppendOnly ==
    /\ appended' # appended =>
          /\ \A i \in Rows : base_data(block', i) = base_data(block, i)
          /\ LET grown == DictionaryRegion(block')
             IN  SubSeq(grown, Len(grown) - Len(DictionaryRegion(block)) + 1, Len(grown))
                     = DictionaryRegion(block)
    /\ (last_call'.op = "AppendThrew" /\ UNCHANGED <<fault, reload>>) =>
          UNCHANGED <<block, count, head, overflow_blocks, buffers, temp_id, appended>>

\* after a failed append, Scan(0, k) returns the k values appended before it
ScanAfterFailure ==
    last_call.op = "AppendThrew" => (count = Len(appended) /\ ScanAll = appended)

\* C10: an append changes neither the offset entries nor the dictionary bytes of
\* the rows already there; an append that fails in the buffer manager leaves
\* the block, the row count, the in-memory chain and the side index as they
\* were, and Scan still returns the values appended before it.
C10_NoRollback == []ScanAfterFailure /\ [][AppendOnly]_vars

C10_Witness ==
    /\ last_call.op = "AppendThrew"
    /\ count >= 2
    /\ head # <<>>
    /\ \E i \in 1..count : IsOverflow(appended[i])
    /\ ScanAll = appended

\* InitSegment applied to the block as it is now
InitSegmentContract ==
    /\ LET seg == StringInitSegment(block, INVALID_BLOCK, Null)
       IN  /\ GetDictionary(seg.block) = [size |-> 0, end |-> SegmentSize]
           /\ seg.head = <<>> /\ seg.overflow_blocks = {}
           /\ seg.on_disk_blocks = <<>>
           /\ seg.pinned.overflow = {}
    /\ \A st \in {Null, SerializeState(on_disk_blocks),
                   DeserializeState(Serialize([blocks |-> on_disk_blocks]))} :
          LET seg == StringInitSegment(block, 0, st)
          IN  /\ seg.block = block
              /\ seg.on_disk_blocks = (IF st.present THEN st.blocks ELSE <<>>)
              /\ st = Null => seg.on_disk_blocks = <<>>
              /\ seg.head = <<>> /\ seg.overflow_blocks = {}
              /\ ~seg.pinned.primary /\ seg.pinned.overflow = {}
    /\ last_call.op = "InitSegment" =>
          /\ GetDictionary(block) = [size |-> 0, end |-> SegmentSize]
          /\ head = <<>> /\ overflow_blocks = {}

\* the reload step
ReloadFrame ==
    (reload.stage # "reloaded" /\ reload'.stage = "reloaded") =>
        /\ block' = block
        /\ UNCHANGED <<disk, buffers, head, overflow_blocks, count>>
        /\ reload'.on_disk_blocks
               = (IF reload.state.present THEN reload.state.blocks ELSE <<>>)

\* C11: InitSegment on a fresh block (block id INVALID_BLOCK) writes the header
\* {size: 0, end: segment size} and returns a state with an empty in-memory
\* chain; on a reloaded block it leaves every byte of the block as it is and
\* sets the durable block list to the deserialized list (empty when no state
\* is given), and it pins and reads no overflow block.
C11_InitSegment == []InitSegmentContract /\ [][ReloadFrame]_vars

C11_Witness ==
    /\ reload.stage = "reloaded"
    /\ reload.on_disk_blocks # <<>>
    /\ reload.on_disk_blocks = on_disk_blocks
    /\ count >= 1
    /\ GetDictionary(block).end < SegmentSize

RECURSIVE SumLengths(_)
SumLengths(rows) ==
    IF rows = <<>> THEN 0
    ELSE (IF Head(rows) = NullRow THEN 0 ELSE Len(Head(rows))) + SumLengths(Tail(rows))

OverflowCount(rows) ==
    Cardinality({i \in 1..Len(rows) :
                    rows[i] # NullRow /\ Len(rows[i]) >= GetStringBlockLimit(BlockSize)})

\* C12: after any sequence of Analyze calls, FinalAnalyze returns
\* count * 4 + (sum of the lengths of the valid strings) + overflow_count * 12,
\* count being all the rows passed in, valid or not, and overflow_count the
\* valid strings of at least the block limit; Analyze returns true.
C12_AnalyzeEstimate ==
    /\ StringFinalAnalyze(analyze_state)
           = Len(analyzed) * 4 + SumLengths(analyzed)
               + OverflowCount(analyzed) * BIG_STRING_MARKER_SIZE
    /\ analyze_state.count = Len(analyzed)
    /\ last_call.op = "Analyze" => last_call.result = TRUE

C12_Witness ==
    /\ last_call.op = "Analyze"
    /\ Len(analyzed) = MaxAnalyzed
    /\ \E i, j, k \in 1..Len(analyzed) :
          /\ analyzed[i] = NullRow
          /\ analyzed[j] # NullRow /\ Len(analyzed[j]) = GetStringBlockLimit(BlockSize)
          /\ analyzed[k] # NullRow /\ Len(analyzed[k]) = GetStringBlockLimit(BlockSize) - 1
    /\ StringFinalAnalyze(analyze_state) > Len(analyzed) * 4 + SumLengths(analyzed)

\* a step that is a direct write to the in-memory chain
MemoryWriteStep == written' # written /\ ~overflow_writer.configured

\* what a write into the current head does
IntoHead(v, w) ==
    /\ head' = [head EXCEPT ![1].offset = @ + Len(v) + Uint32Size]
    /\ w.block_id = head[1].block
    /\ w.offset = head[1].offset
    /\ UNCHANGED <<temp_id, overflow_blocks>>
    /\ DOMAIN buffers' = DOMAIN buffers

\* what a write into a newly allocated buffer does
IntoNewBuffer(v, w) ==
    /\ Len(head') = Len(head) + 1
    /\ Tail(head') = head
    /\ head'[1].size = MaxValue(Len(v) + Uint32Size, BlockSize)
    /\ head'[1].offset = Len(v) + Uint32Size
    /\ head'[1].block = w.block_id
    /\ w.offset = 0
    /\ w.block_id \notin DOMAIN buffers
    /\ DOMAIN buffers' = DOMAIN buffers \cup {w.block_id}
    /\ Len(buffers'[w.block_id]) = head'[1].size

\* the buffer holds the length prefix at the returned offset, then the bytes
Stored(v, w) ==
    /\ w.value = v
    /\ InBounds(buffers'[w.block_id], w.offset, Uint32Size + Len(v))
    /\ ReadBytes(buffers'[w.block_id], w.offset, Uint32Size) = Store(Len(v), Uint32Size)
    /\ ReadBytes(buffers'[w.block_id], w.offset + Uint32Size, Len(v)) = v

PlacementAsStated ==
    MemoryWriteStep =>
        LET w == written'[Len(written')]
            v == w.value
        IN  /\ Stored(v, w)
            /\ IF head # <<>> /\ head[1].offset + Len(v) + Uint32Size <= head[1].size
               THEN IntoHead(v, w) ELSE IntoNewBuffer(v, w)

Placement ==
    MemoryWriteStep =>
        LET w == written'[Len(written')]
            v == w.value
        IN  /\ Stored(v, w)
            /\ IF head # <<>> /\ head[1].offset + Len(v) + Uint32Size < head[1].size
               THEN IntoHead(v, w) ELSE IntoNewBuffer(v, w)

RangeOf(w) == w.offset .. (w.offset + Uint32Size + Len(w.value) - 1)

ChainIds == {head[n].block : n \in 1..Len(head)}

\* C14: after any sequence of in-memory overflow writes every written string
\* lies inside one buffer, no chain node's write offset passes its size, the
\* byte ranges of different strings do not overlap, the side index has
\* exactly the chain's block ids as keys, and Read of every (block_id, offset)
\* returned so far still yields the value written by that call.
C14_InMemoryChain ==
    ~overflow_writer.configured =>
        /\ \A n \in 1..Len(head) :
              /\ head[n].offset <= head[n].size
              /\ head[n].block \in DOMAIN buffers
              /\ Len(buffers[head[n].block]) = head[n].size
        /\ overflow_blocks = ChainIds
        /\ Cardinality(ChainIds) = Len(head)
        /\ \A k \in 1..Len(written) :
              LET w == written[k]
              IN  /\ w.block_id \in overflow_blocks
                  /\ w.block_id >= MAXIMUM_BLOCK
                  /\ w.offset >= 0
                  /\ \E n \in 1..Len(head) :
                        /\ head[n].block = w.block_id
                        /\ w.offset + Uint32Size + Len(w.value) <= head[n].size
                        /\ w.offset + Uint32Size + Len(w.value) <= head[n].offset
                  /\ ReadOverflowString(OverflowStore, w.block_id, w.offset) = w.value
        /\ \A j, k \in 1..Len(written) :
              (j < k /\ written[j].block_id = written[k].block_id) =>
                  RangeOf(written[j]) \cap RangeOf(written[k]) = {}

C14_Witness ==
    /\ ~overflow_writer.configured
    /\ Len(written) = MaxWrites
    /\ Len(head) >= 2
    /\ \E j, k \in 1..Len(written) :
          /\ j < k /\ written[j].block_id = written[k].block_id
          /\ ReadOverflowString(OverflowStore, written[j].block_id, written[j].offset)
                 = written[j].value
    /\ \E k \in 1..(Len(written) - 1) :
          /\ Len(written[k].value) + Uint32Size > BlockSize
          /\ written[k].block_id # head[1].block
          /\ ReadOverflowString(OverflowStore, written[k].block_id, written[k].offset)
                 = written[k].value

\* a direct write step
WriteStep == written' # written

\* the store a write leaves alone
Exclusive ==
    WriteStep =>
        LET w == written'[Len(written')]
        IN  IF overflow_writer.configured
            THEN /\ UNCHANGED <<head, overflow_blocks, buffers, temp_id>>
                 /\ w.block_id < MAXIMUM_BLOCK
                 /\ w.block_id \in DOMAIN disk'
                 /\ overflow_writer'.configured
            ELSE /\ UNCHANGED <<on_disk_blocks, disk, free_ids, overflow_writer>>
                 /\ w.block_id >= MAXIMUM_BLOCK
                 /\ w.block_id \in overflow_blocks'

\* C20: with an overflow writer configured, Write goes to the writer and leaves
\* the in-memory chain (head, node offsets, side index, buffers) as it was;
\* with none configured, Write uses the in-memory chain and leaves the durable
\* block list, the durable blocks and the writer as they were.
C20_ExclusiveDestination ==
    [](overflow_writer.configured => head = <<>> /\ overflow_blocks = {} /\ buffers = NoMap)
    /\ [](~overflow_writer.configured => on_disk_blocks = <<>> /\ disk = NoMap)
    /\ [][Exclusive]_vars

C20_Witness ==
    /\ Len(written) = MaxWrites
    /\ overflow_writer.configured
    /\ Len(on_disk_blocks) >= 3
    /\ head = <<>>
    /\ \A k \in 1..Len(written) : written[k].block_id < MAXIMUM_BLOCK

\* the bytes a chain of durable blocks offers a reader that starts at offset
\* first_offset of the first block and at offset 0 of each later one
RECURSIVE ChainPayload(_, _)
ChainPayload(pinned, first_offset) ==
    IF pinned = <<>> THEN <<>>
    ELSE SubSeq(disk[Head(pinned)], first_offset + 1, BlockSize - BlockIdSize)
             \o ChainPayload(Tail(pinned), 0)

DurableWritten == {k \in 1..Len(written) : written[k].block_id < MAXIMUM_BLOCK}

\* C15: a durable read takes the 32-bit length L at the offset and returns
\* exactly L bytes: the bytes of the chain's blocks in chain order, each block
\* giving bytes only below block_size - sizeof(block_id), the next block's id
\* read from those trailing bytes and the read resuming at its offset 0.  The
\* loop ends with nothing left to copy and follows a next pointer only while
\* bytes remain.
C15_DurableChainedRead ==
    \A k \in DurableWritten :
        LET w == written[k]
            L == LoadUint32(ReadBytes(disk[w.block_id], w.offset, Uint32Size))
            string == ReadOverflowString(OverflowStore, w.block_id, w.offset)
            trace == ReadOverflowStringTrace(OverflowStore, w.block_id, w.offset)
            n == Len(trace.pinned)
            payload == ChainPayload(trace.pinned, w.offset + Uint32Size)
        IN  /\ L = Len(w.value)
            /\ Len(string) = L
            /\ string = w.value
            /\ trace.remaining = 0
            /\ trace.pinned[1] = w.block_id
            /\ \A i \in 1..(n - 1) :
                  /\ trace.pinned[i] \in DOMAIN disk
                  /\ trace.pinned[i + 1]
                         = LoadBlockId(ReadBytes(disk[trace.pinned[i]],
                                                 BlockSize - BlockIdSize, BlockIdSize))
            /\ Len(payload) >= L
            /\ string = SubSeq(payload, 1, L)
            /\ n > 1 => Len(ChainPayload(SubSeq(trace.pinned, 1, n - 1),
                                         w.offset + Uint32Size)) < L

C15_Witness ==
    /\ overflow_writer.configured
    /\ last_call.op = "Read"
    /\ Len(last_call.result.trace.pinned) >= 3
    /\ last_call.result.trace.remaining = 0
    /\ Len(last_call.result.string) > BlockSize
    /\ \E k \in 2..Len(written) :
          /\ written[k].offset > 0
          /\ written[k].value = last_call.result.string
          /\ ReadOverflowStringTrace(OverflowStore, written[k].block_id,
                                     written[k].offset) = last_call.result.trace

\* C19: a durable read whose stored length is at least one block
\* (block_manager.GetBlockSize()) allocates a buffer of exactly that length
\* and hands it to the result vector; a shorter one takes its bytes from the
\* result vector's own string heap and allocates no buffer.
C19_ReadDestination ==
    \A k \in DurableWritten :
        LET w == written[k]
            L == Len(w.value)
            trace == ReadOverflowStringTrace(OverflowStore, w.block_id, w.offset)
        IN  IF L >= BlockSize
            THEN /\ trace.allocated = <<L>>
                 /\ trace.handles = <<[scratch |-> TRUE, block |-> INVALID_BLOCK, size |-> L]>>
                 /\ trace.heap = <<>>
            ELSE /\ trace.allocated = <<>>
                 /\ trace.handles = <<>>
                 /\ trace.heap = <<L>>

C19_Witness ==
    /\ overflow_writer.configured
    /\ last_call.op = "Read"
    /\ last_call.result.trace.allocated = <<BlockSize>>
    /\ Len(last_call.result.string) = BlockSize
    /\ \E k \in 1..Len(written) :
          LET trace == ReadOverflowStringTrace(OverflowStore, written[k].block_id,
                                               written[k].offset)
          IN  /\ Len(written[k].value) >= BlockSize - BlockIdSize
              /\ Len(written[k].value) < BlockSize
              /\ trace.allocated = <<>>
              /\ trace.heap = <<Len(written[k].value)>>

\* a FinalizeAppend has compacted the block: it returned less than the segment
\* size, and no operation has returned since
Compacted == last_call.op = "FinalizeAppend" /\ last_call.result < SegmentSize

AppendKeepsEnd == appended' # appended => GetDictionaryEnd(block') = GetDictionaryEnd(block)

ScanProgress ==
    scan_state.active =>
        LET base == scan_state.base
            done == scan_state.row_index
        IN  /\ Len(result_data) = base + count + 1
            /\ \A k \in 1..Len(result_data) :
                  result_data[k] =
                      IF k <= base THEN Earlier
                      ELSE IF k <= base + done THEN appended[k - base]
                      ELSE Unset
            /\ (base = 0 /\ done = count) =>
                  SubSeq(result_data, 1, count) = ScanAll

\* one ScanPartial(start, scan_count, result_offset) step
ScanPartialFrame ==
    (scan_state.active /\ scan_state'.row_index # scan_state.row_index) =>
        LET start == scan_state.row_index
            scan_count == scan_state'.row_index - start
            result_offset == scan_state.base + start
        IN  /\ block' = block
            /\ UNCHANGED <<count, head, overflow_blocks, on_disk_blocks, buffers, disk>>
            /\ Len(result_data') = Len(result_data)
            /\ \A k \in 1..Len(result_data) :
                  result_data'[k] =
                      IF k > result_offset /\ k <= result_offset + scan_count
                      THEN appended[start + (k - result_offset)]
                      ELSE result_data[k]

\* C17: ScanPartial(start, count, result_offset) writes the value of row
\* start + i to result[result_offset + i] for every i below count and leaves
\* every other entry of the result and the block as they were; its first
\* length is taken against offset[start - 1] when start > 0, so ScanPartial(0,
\* k, 0) followed by ScanPartial(k, n - k, k) fills the result as Scan(0, n)
\* does.
C17_ScanPartialFrame == []ScanProgress /\ [][ScanPartialFrame]_vars

C17_Witness ==
    /\ scan_state.active
    /\ scan_state.base = 0
    /\ scan_state.row_index = count
    /\ count >= 3
    /\ last_call.op = "ScanPartial"
    /\ last_call.result < count
    /\ ~IsOverflow(appended[count - last_call.result]) /\ appended[count - last_call.result] # <<>>
    /\ IsOverflow(appended[count - last_call.result + 1])
    /\ SubSeq(result_data, 1, count) = ScanAll
    /\ result_data[count + 1] = Unset

PinnedIds == {pin_calls[i] : i \in 1..Len(pin_calls)}

\* the cache and the pins made so far
PinCache ==
    /\ DOMAIN handles = fetched_ids
    /\ \A id \in DOMAIN handles : handles[id] = [block |-> id]
    /\ PinnedIds = fetched_ids
    /\ Cardinality(PinnedIds) = Len(pin_calls)
    /\ last_call.op = "FetchRow" =>
          result_data = <<IF PrimaryBlockId(last_call.result.segment) = PrimaryBlockId(1)
                          THEN appended[last_call.result.row_id + 1]
                          ELSE MkString(3, 96)>>

\* one fetch: it pins the primary block if the cache has no handle for it,
\* and otherwise changes neither the cache nor the pins
FetchStep ==
    last_call'.op = "FetchRow" =>
        LET id == PrimaryBlockId(last_call'.result.segment)
        IN  IF id \in DOMAIN handles
            THEN UNCHANGED <<handles, pin_calls>>
            ELSE /\ pin_calls' = Append(pin_calls, id)
                 /\ DOMAIN handles' = DOMAIN handles \cup {id}
                 /\ \A other \in DOMAIN handles : handles'[other] = handles[other]

\* C18: over any sequence of FetchRow calls through one fetch state, each
\* primary block is pinned at most once, on the first fetch that touches it;
\* every later fetch of that block uses the cached handle; the cache holds
\* exactly one handle for each primary block id fetched so far.
C18_FetchPinCache == []PinCache /\ [][FetchStep]_vars

C18_Witness ==
    /\ last_call.op = "FetchRow"
    /\ last_call.result.segment = 2
    /\ last_call.result.row_id >= 1
    /\ pin_calls = <<PrimaryBlockId(3), PrimaryBlockId(1)>>
    /\ DOMAIN handles = {PrimaryBlockId(1), PrimaryBlockId(3)}
    /\ count >= 2
    /\ IsOverflow(appended[last_call.result.row_id + 1])

====
